---------------------------- MODULE Spec2Model ----------------------------
(***************************************************************************)
(* Prasaran stream viewer: the URL resolver (parseStreamUrl and the        *)
(* functions it calls) and the state it reads.                             *)
(*                                                                         *)
(* The repository holds two builds of the program that the properties      *)
(* below are about:                                                        *)
(*   "auto"      src/unnamed/part_000        (size presets and Auto mode)  *)
(*   "maximize"  src/src/main.ts:458-902     (maximize / restore toggle)   *)
(* The two builds share trim/validate/classify/extract and differ in       *)
(* buildFacebookEmbedUrl and getPlayerDimensions.                          *)
(*                                                                         *)
(* A JavaScript string is a sequence of characters.  A character is a      *)
(* one-letter TLA+ string for printable ASCII, "\t", "\n", and the string  *)
(* "U+XXXX" (four hex digits) for any other UTF-16 code unit; "U+D800" to  *)
(* "U+DFFF" are unpaired surrogates.  JavaScript's null is the sequence    *)
(* <<"null">>, which is no string because "null" is no character.          *)
(***************************************************************************)
EXTENDS Integers, Sequences, FiniteSets, TLC

-----------------------------------------------------------------------------
(* Strings and characters *)

S(lit) == [i \in 1..Len(lit) |-> SubSeq(lit, i, i)]

null == <<"null">>

Range(s) == {s[i] : i \in 1..Len(s)}

\* Printable ASCII, U+0020..U+005F and U+0061..U+007E, in code order.
AsciiLow == S(" !\"#$%&'()*+,-./0123456789:;<=>?@ABCDEFGHIJKLMNOPQRSTUVWXYZ[\\]^_")
AsciiHigh == S("abcdefghijklmnopqrstuvwxyz{|}~")

HexDigits == S("0123456789ABCDEF")

Digits == Range(S("0123456789"))
UpperAlpha == Range(S("ABCDEFGHIJKLMNOPQRSTUVWXYZ"))
LowerAlpha == Range(S("abcdefghijklmnopqrstuvwxyz"))
Alpha == UpperAlpha \cup LowerAlpha
AlphaNum == Alpha \cup Digits

HexLower == S("0123456789abcdef")

HexVal(d) == (CHOOSE i \in 1..16 : HexDigits[i] = d \/ HexLower[i] = d) - 1

IsHexDigit(c) == c \in Digits \cup Range(S("ABCDEFabcdef"))

AsciiCode ==
  [c \in Range(AsciiLow) \cup Range(AsciiHigh) \cup {"\t", "\n"} |->
     IF c = "\t" THEN 9
     ELSE IF c = "\n" THEN 10
     ELSE IF c \in Range(AsciiLow)
          THEN 31 + CHOOSE i \in 1..Len(AsciiLow) : AsciiLow[i] = c
          ELSE 96 + CHOOSE i \in 1..Len(AsciiHigh) : AsciiHigh[i] = c]

\* The code unit of a character.
CodePoint(c) ==
  IF Len(c) = 1 THEN AsciiCode[c]
  ELSE 4096 * HexVal(SubSeq(c, 3, 3)) + 256 * HexVal(SubSeq(c, 4, 4))
       + 16 * HexVal(SubSeq(c, 5, 5)) + HexVal(SubSeq(c, 6, 6))

\* The character of a code unit.
CharOf(n) ==
  IF n = 9 THEN "\t"
  ELSE IF n = 10 THEN "\n"
  ELSE IF n >= 32 /\ n <= 95 THEN AsciiLow[n - 31]
  ELSE IF n >= 97 /\ n <= 126 THEN AsciiHigh[n - 96]
  ELSE "U+" \o HexDigits[(n \div 4096) + 1] \o HexDigits[((n \div 256) % 16) + 1]
            \o HexDigits[((n \div 16) % 16) + 1] \o HexDigits[(n % 16) + 1]

NBSP == "U+00A0"
LoneSurrogate == "U+D800"
ReplacementChar == "U+FFFD"

IsSurrogate(c) == Len(c) > 1 /\ CodePoint(c) >= 55296 /\ CodePoint(c) <= 57343

\* The concatenation of the strings of ss (by halves: the depth of the
\* recursion stays logarithmic).
RECURSIVE Flatten(_)
Flatten(ss) ==
  IF ss = <<>> THEN <<>>
  ELSE IF Len(ss) = 1 THEN ss[1]
  ELSE Flatten(SubSeq(ss, 1, Len(ss) \div 2)) \o Flatten(SubSeq(ss, (Len(ss) \div 2) + 1, Len(ss)))

Min(ns) == CHOOSE n \in ns : \A m \in ns : n <= m
Max(ns) == CHOOSE n \in ns : \A m \in ns : n >= m

\* The least index i >= from with s[i] \in cs, or Len(s) + 1.
IndexOfAny(s, cs, from) ==
  LET hits == {i \in from..Len(s) : s[i] \in cs}
  IN IF hits = {} THEN Len(s) + 1 ELSE Min(hits)

StartsWithAt(s, sub, i) ==
  /\ i + Len(sub) - 1 <= Len(s)
  /\ \A k \in 1..Len(sub) : s[i + k - 1] = sub[k]

\* String.prototype.includes
includes(s, sub) == \E i \in 1..(Len(s) - Len(sub) + 1) : StartsWithAt(s, sub, i)

ToLowerChar(c) ==
  IF c \in UpperAlpha THEN CharOf(CodePoint(c) + 32) ELSE c

\* String.prototype.toLowerCase (on the characters the model draws)
toLowerCase(s) == [i \in 1..Len(s) |-> ToLowerChar(s[i])]

\* ECMAScript WhiteSpace and LineTerminator code units.
IsJsWhiteSpace(c) ==
  LET n == CodePoint(c)
  IN n \in {9, 10, 11, 12, 13, 32, 160, 5760, 8232, 8233, 8239, 8287, 12288, 65279}
     \/ (n >= 8192 /\ n <= 8202)

\* A trim that knows U+0020 only.
trimSpacesOnly(s) ==
  LET nonSp == {i \in 1..Len(s) : s[i] # " "}
  IN IF nonSp = {} THEN <<>>
     ELSE SubSeq(s, Min(nonSp), Max(nonSp))

\* String.prototype.trim
trim(s) ==
  LET nonWs == {i \in 1..Len(s) : ~IsJsWhiteSpace(s[i])}
  IN IF nonWs = {} THEN <<>>
     ELSE SubSeq(s, Min(nonWs), Max(nonWs))

\* Number to decimal string (template-literal interpolation of a
\* non-negative integer).
RECURSIVE ToDecimal(_)
ToDecimal(n) ==
  IF n < 10 THEN <<CharOf(48 + n)>>
  ELSE ToDecimal(n \div 10) \o <<CharOf(48 + (n % 10))>>

-----------------------------------------------------------------------------
(* UTF-8 and percent-encoding *)

\* The UTF-8 bytes of a code point below U+10000.
Utf8Bytes(n) ==
  IF n < 128 THEN <<n>>
  ELSE IF n < 2048 THEN <<192 + (n \div 64), 128 + (n % 64)>>
  ELSE <<224 + (n \div 4096), 128 + ((n \div 64) % 64), 128 + (n % 64)>>

PercentByte(b) == <<"%", HexDigits[(b \div 16) + 1], HexDigits[(b % 16) + 1]>>

PercentEncodeChar(c) ==
  LET bs == Utf8Bytes(CodePoint(c))
  IN Flatten([i \in 1..Len(bs) |-> PercentByte(bs[i])])

\* Bytes of a string in which %XX stands for the byte XX and any other
\* character for its UTF-8 bytes (the URL standard's percent-decode).
\* A "%" followed by two hex digits starts a byte, and the digits belong
\* to it (no two such triples overlap, a hex digit being no "%").
PercentDecodeBytes(s) ==
  LET starts(i) == /\ i >= 1 /\ i + 2 <= Len(s)
                   /\ s[i] = "%" /\ IsHexDigit(s[i + 1]) /\ IsHexDigit(s[i + 2])
  IN Flatten([i \in 1..Len(s) |->
       IF starts(i) THEN <<16 * HexVal(s[i + 1]) + HexVal(s[i + 2])>>
       ELSE IF starts(i - 1) \/ starts(i - 2) THEN <<>>
       ELSE Utf8Bytes(CodePoint(s[i]))])

IsCont(b) == b >= 128 /\ b <= 191

\* UTF-8 decode without BOM: an ill-formed byte decodes to U+FFFD.  A
\* well-formed lead byte takes the continuation bytes after it (a lead byte
\* is no continuation byte, so no two sequences overlap).
Utf8Decode(bs) ==
  LET at(i) == IF i >= 1 /\ i <= Len(bs) THEN bs[i] ELSE 0
      lead2(i) == at(i) >= 194 /\ at(i) <= 223 /\ IsCont(at(i + 1))
      val3(i) == (at(i) - 224) * 4096 + (at(i + 1) - 128) * 64 + (at(i + 2) - 128)
      lead3(i) == /\ at(i) >= 224 /\ at(i) <= 239 /\ IsCont(at(i + 1)) /\ IsCont(at(i + 2))
                  /\ val3(i) >= 2048 /\ val3(i) \notin 55296..57343
  IN Flatten([i \in 1..Len(bs) |->
       IF bs[i] < 128 THEN <<CharOf(bs[i])>>
       ELSE IF lead2(i) THEN <<CharOf((bs[i] - 192) * 64 + (bs[i + 1] - 128))>>
       ELSE IF lead3(i) THEN <<CharOf(val3(i))>>
       ELSE IF IsCont(bs[i]) /\ (lead2(i - 1) \/ lead3(i - 1) \/ lead3(i - 2)) THEN <<>>
       ELSE <<ReplacementChar>>])

URIError == <<"URIError">>

\* Characters encodeURIComponent leaves as they are.
UriUnreserved == AlphaNum \cup Range(S("-_.!~*'()"))

\* encodeURI in the place of encodeURIComponent: the reserved characters
\* stay as they are.
encodeURI(s) ==
  LET kept == UriUnreserved \cup Range(S(";/?:@&=+$,#"))
  IN IF \E i \in 1..Len(s) : IsSurrogate(s[i]) THEN URIError
     ELSE Flatten([i \in 1..Len(s) |->
                     IF s[i] \in kept THEN <<s[i]>> ELSE PercentEncodeChar(s[i])])

\* encodeURIComponent: URIError (thrown) on an unpaired surrogate.
encodeURIComponent(s) ==
  IF \E i \in 1..Len(s) : IsSurrogate(s[i]) THEN URIError
  ELSE Flatten([i \in 1..Len(s) |->
                  IF s[i] \in UriUnreserved THEN <<s[i]>> ELSE PercentEncodeChar(s[i])])

-----------------------------------------------------------------------------
(* The URL constructor (WHATWG URL parser, no base URL).                    *)
(* Covered: special schemes other than file, non-special schemes, userinfo, *)
(* port, dot segments, query, fragment.  Not covered, and not drawn by the  *)
(* inputs below: IPv6 and IPv4 host forms, non-ASCII domain labels, file:.  *)

\* The least index i >= from with s[i] \notin cs, or Len(s) + 1.
FirstNotIn(s, cs, from) ==
  LET hits == {i \in from..Len(s) : s[i] \notin cs}
  IN IF hits = {} THEN Len(s) + 1 ELSE Min(hits)

\* The pieces of s between the characters of seps (String.prototype.split
\* for a one-character separator).
RECURSIVE Split(_, _)
Split(s, seps) ==
  LET i == IndexOfAny(s, seps, 1)
  IN IF i > Len(s) THEN <<s>>
     ELSE <<SubSeq(s, 1, i - 1)>> \o Split(SubSeq(s, i + 1, Len(s)), seps)

RECURSIVE Join(_, _)
Join(ss, sep) ==
  IF ss = <<>> THEN <<>>
  ELSE IF Len(ss) = 1 THEN ss[1]
  ELSE ss[1] \o sep \o Join(Tail(ss), sep)

\* WebIDL USVString conversion: an unpaired surrogate becomes U+FFFD.
ToUSVString(s) == [i \in 1..Len(s) |-> IF IsSurrogate(s[i]) THEN ReplacementChar ELSE s[i]]

StripC0OrSpace(s) ==
  LET keep == {i \in 1..Len(s) : CodePoint(s[i]) > 32}
  IN IF keep = {} THEN <<>>
     ELSE SubSeq(s, Min(keep), Max(keep))

RemoveTabOrNewline(s) == SelectSeq(s, LAMBDA c : CodePoint(c) \notin {9, 10, 13})

SpecialSchemes == {S("http"), S("https"), S("ftp"), S("ws"), S("wss")}

SchemeChars == AlphaNum \cup {"+", "-", "."}

UrlFailure == [ok |-> FALSE, hostname |-> <<>>, pathname |-> <<>>, query |-> null]

IsC0ControlSet(c) == CodePoint(c) < 32 \/ CodePoint(c) > 126

IsQuerySet(c, special) ==
  IsC0ControlSet(c) \/ c \in {" ", "\"", "#", "<", ">"} \/ (special /\ c = "'")

IsPathSet(c) == IsQuerySet(c, FALSE) \/ c \in {"?", "^", "U+0060", "{", "}"}

ForbiddenHost == {" ", "#", "/", ":", "<", ">", "?", "@", "[", "\\", "]", "^", "|"}

\* A decoded, lower-cased domain: rejected if empty or if it holds a
\* forbidden domain code point.
CheckedDomain(domain) ==
  IF domain = <<>> THEN UrlFailure
  ELSE IF \E i \in 1..Len(domain) :
             \/ domain[i] \in ForbiddenHost \cup {"%"}
             \/ IsC0ControlSet(domain[i])
       THEN UrlFailure
  ELSE [UrlFailure EXCEPT !.ok = TRUE, !.hostname = domain]

\* Host of a special URL: percent-decode, lower-case, reject forbidden
\* domain code points.
DomainHost(raw) == CheckedDomain(toLowerCase(Utf8Decode(PercentDecodeBytes(raw))))

\* Host of a non-special URL: kept as written, percent-encoded.
OpaqueHost(raw) ==
  IF \E i \in 1..Len(raw) : raw[i] \in ForbiddenHost \/ CodePoint(raw[i]) \in {0, 9, 10, 13}
  THEN UrlFailure
  ELSE [UrlFailure EXCEPT !.ok = TRUE,
          !.hostname = Flatten([i \in 1..Len(raw) |->
                          IF IsC0ControlSet(raw[i]) THEN PercentEncodeChar(raw[i])
                          ELSE <<raw[i]>>])]

RECURSIVE DecimalValue(_)
DecimalValue(ds) ==
  IF ds = <<>> THEN 0
  ELSE 10 * DecimalValue(SubSeq(ds, 1, Len(ds) - 1)) + (CodePoint(ds[Len(ds)]) - 48)

\* The host and the port of an authority; hasColon: a ":" parts them.
ParseHostAndPort(rawHost, port, hasColon, special) ==
  IF hasColon /\ rawHost = <<>> THEN UrlFailure
  ELSE IF \E i \in 1..Len(port) : port[i] \notin Digits THEN UrlFailure
  ELSE IF Len(port) > 5 \/ DecimalValue(port) > 65535 THEN UrlFailure
  ELSE IF special /\ rawHost = <<>> THEN UrlFailure
  ELSE IF special THEN DomainHost(rawHost)
  ELSE OpaqueHost(rawHost)

\* host[:port], the part of the authority after the credentials (if any).
ParseHostPort(hostport, credentials, c, special) ==
  IF credentials /\ hostport = <<>> THEN UrlFailure
  ELSE ParseHostAndPort(SubSeq(hostport, 1, c - 1), SubSeq(hostport, c + 1, Len(hostport)),
                        c <= Len(hostport), special)

\* The index of the last "@" of the authority, or 0.
LastAt(auth) == Max({0} \cup {i \in 1..Len(auth) : auth[i] = "@"})

\* Authority: [userinfo@]host[:port]
ParseAuthority(auth, special) ==
  ParseHostPort(SubSeq(auth, LastAt(auth) + 1, Len(auth)), LastAt(auth) > 0,
                IndexOfAny(auth, {":"}, LastAt(auth) + 1) - LastAt(auth), special)

IsSingleDot(seg) == toLowerCase(seg) \in {S("."), S("%2e")}

IsDoubleDot(seg) == toLowerCase(seg) \in {S(".."), S(".%2e"), S("%2e."), S("%2e%2e")}

\* A path segment, percent-encoded.
EncodeSegment(seg) ==
  Flatten([i \in 1..Len(seg) |->
             IF IsPathSet(seg[i]) THEN PercentEncodeChar(seg[i]) ELSE <<seg[i]>>])

\* The path without its last segment.
Shorten(path) == IF path = <<>> THEN <<>> ELSE SubSeq(path, 1, Len(path) - 1)

\* The path state: segs are the raw segments still to read, path the
\* segments of the URL so far.
RECURSIVE PathSegments(_, _)
PathSegments(segs, path) ==
  IF segs = <<>> THEN path
  ELSE IF IsDoubleDot(Head(segs))
  THEN PathSegments(Tail(segs),
                    IF Len(segs) = 1 THEN Append(Shorten(path), <<>>) ELSE Shorten(path))
  ELSE IF IsSingleDot(Head(segs))
  THEN PathSegments(Tail(segs), IF Len(segs) = 1 THEN Append(path, <<>>) ELSE path)
  ELSE PathSegments(Tail(segs), Append(path, EncodeSegment(Head(segs))))

\* The serialization of a list of path segments.
SerializePath(path) == Flatten([i \in 1..Len(path) |-> <<"/">> \o path[i]])

\* The pathname of a URL whose path is written raw.
PathOf(raw, seps, special) ==
  IF raw = <<>> /\ ~special THEN <<>>
  ELSE SerializePath(PathSegments(
         Split(IF raw # <<>> /\ raw[1] \in seps THEN Tail(raw) ELSE raw, seps), <<>>))

\* The pathname getter of a URL whose text after the authority is tail.
PathName(tail, special) ==
  PathOf(SubSeq(tail, 1, IndexOfAny(tail, {"?", "#"}, 1) - 1),
         IF special THEN {"/", "\\"} ELSE {"/"}, special)

EncodeQuery(raw, special) ==
  Flatten([i \in 1..Len(raw) |->
             IF IsQuerySet(raw[i], special) THEN PercentEncodeChar(raw[i]) ELSE <<raw[i]>>])

\* The query of a URL whose text after the authority is tail and in which q
\* is the index of the first "?" or "#" (or is past the end).
QueryAt(tail, q, special) ==
  IF q > Len(tail) \/ tail[q] = "#" THEN null
  ELSE EncodeQuery(SubSeq(tail, q + 1, IndexOfAny(tail, {"#"}, q + 1) - 1), special)

\* The URL's query (without "?"), percent-encoded; null when there is none.
Query(tail, special) == QueryAt(tail, IndexOfAny(tail, {"?", "#"}, 1), special)

\* The URL of a host and of the text after the authority.
WithHost(host, tail, special) ==
  IF ~host.ok THEN UrlFailure
  ELSE [host EXCEPT !.pathname = PathName(tail, special), !.query = Query(tail, special)]

\* A URL whose authority starts at a and ends before e.
ParseFromAuthority(rest, e, a, special) ==
  WithHost(ParseAuthority(SubSeq(rest, a, e - 1), special), SubSeq(rest, e, Len(rest)),
           special)

ParseSpecialFrom(rest, a) ==
  ParseFromAuthority(rest, IndexOfAny(rest, {"/", "\\", "?", "#"}, a), a, TRUE)

ParseSpecial(rest) == ParseSpecialFrom(rest, FirstNotIn(rest, {"/", "\\"}, 1))

\* A non-special URL with an opaque path that ends before e.
OpaquePath(rest, e) ==
  [UrlFailure EXCEPT !.ok = TRUE,
     !.pathname = Flatten([i \in 1..e - 1 |->
                     IF IsC0ControlSet(rest[i]) THEN PercentEncodeChar(rest[i])
                     ELSE <<rest[i]>>]),
     !.query = Query(rest, FALSE)]

ParseNonSpecial(rest) ==
  IF StartsWithAt(rest, S("//"), 1)
  THEN ParseFromAuthority(rest, IndexOfAny(rest, {"/", "?", "#"}, 3), 3, FALSE)
  ELSE IF StartsWithAt(rest, S("/"), 1)
  THEN [UrlFailure EXCEPT !.ok = TRUE, !.pathname = PathName(rest, FALSE),
                          !.query = Query(rest, FALSE)]
  ELSE OpaquePath(rest, IndexOfAny(rest, {"?", "#"}, 1))

\* The URL of the text s, whose scheme ends before colon.
ParseScheme(s, colon) ==
  IF s = <<>> THEN UrlFailure
  ELSE IF s[1] \notin Alpha \/ colon > Len(s) THEN UrlFailure
  ELSE IF s[colon] # ":" THEN UrlFailure
  ELSE IF toLowerCase(SubSeq(s, 1, colon - 1)) \in SpecialSchemes
       THEN ParseSpecial(SubSeq(s, colon + 1, Len(s)))
       ELSE ParseNonSpecial(SubSeq(s, colon + 1, Len(s)))

BasicParse(s) == ParseScheme(s, FirstNotIn(s, SchemeChars, 1))

\* new URL(input): ok = FALSE when the constructor throws TypeError.
URL(input) == BasicParse(RemoveTabOrNewline(StripC0OrSpace(ToUSVString(input))))

\* application/x-www-form-urlencoded parsing of the query: the list of
\* <<name, value>> pairs behind url.searchParams.
FormDecode(s) ==
  Utf8Decode(PercentDecodeBytes([i \in 1..Len(s) |-> IF s[i] = "+" THEN " " ELSE s[i]]))

\* The pair of a name=value piece in which eq is the index of the first "="
\* (or is past the end).
ParamPair(piece, eq) ==
  <<FormDecode(SubSeq(piece, 1, eq - 1)), FormDecode(SubSeq(piece, eq + 1, Len(piece)))>>

ParamPairs(pieces) ==
  [i \in 1..Len(pieces) |-> ParamPair(pieces[i], IndexOfAny(pieces[i], {"="}, 1))]

SearchParams(url) ==
  IF url.query = null THEN <<>>
  ELSE ParamPairs(SelectSeq(Split(url.query, {"&"}), LAMBDA p : p # <<>>))

\* URLSearchParams.prototype.has, on the list of pairs
SearchParamsHas(params, name) == \E i \in 1..Len(params) : params[i][1] = name

\* URLSearchParams.prototype.get, on the list of pairs: the first value, or
\* null
SearchParamsGet(params, name) ==
  IF SearchParamsHas(params, name)
  THEN params[Min({i \in 1..Len(params) : params[i][1] = name})][2]
  ELSE null

-----------------------------------------------------------------------------
(* State *)

VARIABLES
  build,            \* which build runs: "auto" or "maximize"
  urlInput,         \* urlInput.value
  sizeSelect,       \* sizeSelect.value
  playerContainer,  \* [clientWidth, clientHeight] of the player container
  lastCall,         \* the latest call of parseStreamUrl and what it read
  priorCall,        \* the call before it
  currentStreamUrl, \* the URL of the loaded stream as typed, or null
  currentPlatform,  \* its platform, or null
  isMaximized,      \* the "maximize" build's flag
  statusText,       \* [textContent, className] of the status line
  streamIframes,    \* the elements with id 'stream-iframe', in document order
  hostWindow,       \* the window as the host has it: [maximized, width, height]
  tasks,            \* the async calls that wait on the host, in the order started
  timers,           \* the setTimeout callbacks not yet run
  changeEvent,      \* a change event of sizeSelect waits for its handler
  recreations       \* history: the surfaces made since the last action of the user

\* The state of the application around the resolver.
appVars ==
  <<currentStreamUrl, currentPlatform, isMaximized, statusText, streamIframes, hostWindow,
    tasks, timers, changeEvent, recreations>>

vars ==
  <<build, urlInput, sizeSelect, playerContainer, lastCall, priorCall, currentStreamUrl,
    currentPlatform, isMaximized, statusText, streamIframes, hostWindow, tasks, timers,
    changeEvent, recreations>>

-----------------------------------------------------------------------------
(* Constants of the program *)

CONTROL_BAR_HEIGHT == 50

FACEBOOK_DEFAULT_WIDTH == 1280
FACEBOOK_DEFAULT_HEIGHT == 720

\* The presets; in the "auto" build the table also holds 'auto': null.
SIZE_PRESETS ==
  [k \in {"1920x1080", "1280x720", "854x480", "640x360", "1080x1920", "720x1280"} |->
     CASE k = "1920x1080" -> [width |-> 1920, height |-> 1080]
       [] k = "1280x720"  -> [width |-> 1280, height |-> 720]
       [] k = "854x480"   -> [width |-> 854, height |-> 480]
       [] k = "640x360"   -> [width |-> 640, height |-> 360]
       [] k = "1080x1920" -> [width |-> 1080, height |-> 1920]
       [] k = "720x1280"  -> [width |-> 720, height |-> 1280]]

\* The values sizeSelect.value takes in each build.
SizeKeys(b) == IF b = "auto" THEN DOMAIN SIZE_PRESETS \cup {"auto"} ELSE DOMAIN SIZE_PRESETS

-----------------------------------------------------------------------------
(* URL parsing functions of the program *)

youtube == S("youtube")
facebook == S("facebook")

checkAutoMode == sizeSelect = "auto"

\* part_000: dimensions from the selected preset
getPlayerDimensions ==
  IF sizeSelect = "auto"
  THEN [width |-> FACEBOOK_DEFAULT_WIDTH, height |-> FACEBOOK_DEFAULT_HEIGHT]
  ELSE IF sizeSelect \in DOMAIN SIZE_PRESETS
  THEN [width |-> SIZE_PRESETS[sizeSelect].width,
        height |-> SIZE_PRESETS[sizeSelect].height - CONTROL_BAR_HEIGHT]
  ELSE [width |-> 1280, height |-> 670]

\* main.ts: dimensions from the container, x || fallback
getPlayerDimensions_main ==
  [width |-> IF playerContainer.clientWidth # 0 THEN playerContainer.clientWidth ELSE 1280,
   height |-> IF playerContainer.clientHeight # 0 THEN playerContainer.clientHeight ELSE 670]

\* The try block of detectPlatform, urlObj being new URL(url); the catch
\* returns null.
PlatformOfHostname(urlObj, hostname) ==
  IF ~urlObj.ok THEN null
  ELSE IF \/ includes(hostname, S("youtube.com"))
          \/ includes(hostname, S("youtu.be"))
          \/ includes(hostname, S("youtube-nocookie.com"))
       THEN youtube
  ELSE IF \/ includes(hostname, S("facebook.com"))
          \/ includes(hostname, S("fb.watch"))
          \/ includes(hostname, S("fb.com"))
       THEN facebook
  ELSE null

PlatformOfUrl(urlObj) == PlatformOfHostname(urlObj, toLowerCase(urlObj.hostname))

\* A detectPlatform that searches the whole URL text, not the hostname.
detectPlatformWholeUrl(url) == PlatformOfHostname(URL(url), toLowerCase(url))

detectPlatform(url) == PlatformOfUrl(URL(url))

IdChars == AlphaNum \cup {"_", "-"}

PathHeads == {S("/live/"), S("/embed/"), S("/shorts/"), S("/v/")}

\* Whether the pattern matches at index i of pathname.
MatchesAt(pathname, i) ==
  \E h \in PathHeads : /\ StartsWithAt(pathname, h, i)
                       /\ i + Len(h) <= Len(pathname)
                       /\ pathname[i + Len(h)] \in IdChars

\* Capture group 2 of the match at index i, whose group 2 starts at from.
Capture(pathname, from) == SubSeq(pathname, from, FirstNotIn(pathname, IdChars, from) - 1)

CaptureAt(pathname, i) ==
  Capture(pathname, i + Len(CHOOSE h \in PathHeads : StartsWithAt(pathname, h, i)))

\* pathname.match(/\/(live|embed|shorts|v)\/([a-zA-Z0-9_-]+)/): capture
\* group 2 of the leftmost match, or null.
PathMatch(pathname) ==
  IF \E i \in 1..Len(pathname) : MatchesAt(pathname, i)
  THEN CaptureAt(pathname, Min({i \in 1..Len(pathname) : MatchesAt(pathname, i)}))
  ELSE null

\* urlObj.pathname.split('/').filter(Boolean)
PathParts(urlObj) == SelectSeq(Split(urlObj.pathname, {"/"}), LAMBDA p : p # <<>>)

\* The try block of extractYouTubeVideoId, urlObj being new URL(url) and
\* searchParams its list of parameters; the catch returns null.
VideoIdOfParts(urlObj, hostname, searchParams, pathParts) ==
  IF ~urlObj.ok THEN null
  ELSE IF SearchParamsHas(searchParams, S("v")) THEN SearchParamsGet(searchParams, S("v"))
  ELSE IF includes(hostname, S("youtu.be")) /\ Len(pathParts) > 0 THEN pathParts[1]
  ELSE PathMatch(urlObj.pathname)

\* The same with the path pattern tried first.
VideoIdOfPartsPathFirst(urlObj, hostname, searchParams, pathParts) ==
  IF ~urlObj.ok THEN null
  ELSE IF PathMatch(urlObj.pathname) # null THEN PathMatch(urlObj.pathname)
  ELSE IF SearchParamsHas(searchParams, S("v")) THEN SearchParamsGet(searchParams, S("v"))
  ELSE IF includes(hostname, S("youtu.be")) /\ Len(pathParts) > 0 THEN pathParts[1]
  ELSE null

VideoIdOfUrlPathFirst(urlObj) ==
  VideoIdOfPartsPathFirst(urlObj, toLowerCase(urlObj.hostname), SearchParams(urlObj),
                          PathParts(urlObj))

VideoIdOfUrl(urlObj) ==
  VideoIdOfParts(urlObj, toLowerCase(urlObj.hostname), SearchParams(urlObj), PathParts(urlObj))

\* An extractYouTubeVideoId that tries the path pattern before the v
\* parameter.
extractYouTubeVideoIdPathFirst(url) == VideoIdOfUrlPathFirst(URL(url))

extractYouTubeVideoId(url) == VideoIdOfUrl(URL(url))

\* A buildYouTubeEmbedUrl on the cookie-setting host.
buildYouTubeEmbedUrlCookie(videoId) ==
  S("https://www.youtube.com/embed/") \o videoId
    \o S("?autoplay=1&rel=0&modestbranding=1")

\* A buildYouTubeEmbedUrl that sizes the embed as the Facebook one is sized.
buildYouTubeEmbedUrlSized(videoId) ==
  S("https://www.youtube-nocookie.com/embed/") \o videoId
    \o S("?autoplay=1&rel=0&modestbranding=1")
    \o S("&width=") \o ToDecimal(getPlayerDimensions.width)

buildYouTubeEmbedUrl(videoId) ==
  S("https://www.youtube-nocookie.com/embed/") \o videoId
    \o S("?autoplay=1&rel=0&modestbranding=1")

\* The template literals of buildFacebookEmbedUrl, filled in.
FacebookEmbed(encodedUrl, dimensions, sized, tail) ==
  IF encodedUrl = URIError THEN URIError
  ELSE S("https://www.facebook.com/plugins/video.php?href=") \o encodedUrl
         \o (IF sized
             THEN S("&width=") \o ToDecimal(dimensions.width)
                    \o S("&height=") \o ToDecimal(dimensions.height)
             ELSE <<>>)
         \o S("&show_text=false&autoplay=true&allowfullscreen=true") \o tail

\* A buildFacebookEmbedUrl that ignores auto mode.
buildFacebookEmbedUrlAlwaysSized(originalUrl, useAutoMode) ==
  FacebookEmbed(encodeURIComponent(originalUrl), getPlayerDimensions, TRUE, <<>>)

\* part_000; URIError when encodeURIComponent throws
buildFacebookEmbedUrl(originalUrl, useAutoMode) ==
  FacebookEmbed(encodeURIComponent(originalUrl), getPlayerDimensions, ~useAutoMode, <<>>)

\* main.ts; URIError when encodeURIComponent throws
buildFacebookEmbedUrl_main(originalUrl) ==
  FacebookEmbed(encodeURIComponent(originalUrl), getPlayerDimensions_main, TRUE,
                S("&mute=false"))

\* The value of a local that the call did not reach.
NotReached == <<"not reached">>

\* What a call of parseStreamUrl ends in: a returned ParseResult, or an
\* exception (thrown = TRUE, and no ParseResult: all three fields null).
\* frame holds the locals of the call when it ended.
ParseResult(platform, embedUrl, error, frame) ==
  [thrown |-> FALSE, platform |-> platform, embedUrl |-> embedUrl, error |-> error,
   frame |-> frame]

Thrown(frame) ==
  [thrown |-> TRUE, platform |-> null, embedUrl |-> null, error |-> null, frame |-> frame]

Frame(trimmedUrl, platform, videoId) ==
  [trimmedUrl |-> trimmedUrl, platform |-> platform, videoId |-> videoId]

\* A parseStreamUrl that classifies before it validates.
ParseTrimmedClassifyFirst(trimmedUrl, validUrl, platform, videoId, facebookEmbed) ==
  IF trimmedUrl = <<>>
  THEN ParseResult(null, null, S("Please enter a URL"),
                   Frame(trimmedUrl, NotReached, NotReached))
  ELSE IF platform = null
  THEN ParseResult(null, null, S("URL must be from YouTube or Facebook"),
                   Frame(trimmedUrl, platform, NotReached))
  ELSE IF ~validUrl
  THEN ParseResult(null, null, S("Invalid URL format"),
                   Frame(trimmedUrl, NotReached, NotReached))
  ELSE IF platform = youtube
  THEN IF videoId = null \/ videoId = <<>>
       THEN ParseResult(youtube, null, S("Could not extract YouTube video ID"),
                        Frame(trimmedUrl, platform, videoId))
       ELSE ParseResult(youtube, buildYouTubeEmbedUrl(videoId), null,
                        Frame(trimmedUrl, platform, videoId))
  ELSE IF facebookEmbed = URIError THEN Thrown(Frame(trimmedUrl, platform, NotReached))
  ELSE ParseResult(facebook, facebookEmbed, null, Frame(trimmedUrl, platform, NotReached))

\* A parseStreamUrl that reports no platform when the id is not found.
ParseTrimmedDropsPlatform(trimmedUrl, validUrl, platform, videoId, facebookEmbed) ==
  IF trimmedUrl = <<>>
  THEN ParseResult(null, null, S("Please enter a URL"),
                   Frame(trimmedUrl, NotReached, NotReached))
  ELSE IF ~validUrl
  THEN ParseResult(null, null, S("Invalid URL format"),
                   Frame(trimmedUrl, NotReached, NotReached))
  ELSE IF platform = null
  THEN ParseResult(null, null, S("URL must be from YouTube or Facebook"),
                   Frame(trimmedUrl, platform, NotReached))
  ELSE IF platform = youtube
  THEN IF videoId = null \/ videoId = <<>>
       THEN ParseResult(null, null, S("Could not extract YouTube video ID"),
                        Frame(trimmedUrl, platform, videoId))
       ELSE ParseResult(youtube, buildYouTubeEmbedUrl(videoId), null,
                        Frame(trimmedUrl, platform, videoId))
  ELSE IF facebookEmbed = URIError THEN Thrown(Frame(trimmedUrl, platform, NotReached))
  ELSE ParseResult(facebook, facebookEmbed, null, Frame(trimmedUrl, platform, NotReached))

\* parseStreamUrl from its third statement on: validUrl tells whether
\* new URL(trimmedUrl) returned, platform, videoId and facebookEmbed are what
\* detectPlatform, extractYouTubeVideoId and buildFacebookEmbedUrl give where
\* they are called.
ParseTrimmed(trimmedUrl, validUrl, platform, videoId, facebookEmbed) ==
  IF trimmedUrl = <<>>
  THEN ParseResult(null, null, S("Please enter a URL"),
                   Frame(trimmedUrl, NotReached, NotReached))
  ELSE IF ~validUrl
  THEN ParseResult(null, null, S("Invalid URL format"),
                   Frame(trimmedUrl, NotReached, NotReached))
  ELSE IF platform = null
  THEN ParseResult(null, null, S("URL must be from YouTube or Facebook"),
                   Frame(trimmedUrl, platform, NotReached))
  ELSE IF platform = youtube
  THEN IF videoId = null \/ videoId = <<>>
       THEN ParseResult(youtube, null, S("Could not extract YouTube video ID"),
                        Frame(trimmedUrl, platform, videoId))
       ELSE ParseResult(youtube, buildYouTubeEmbedUrl(videoId), null,
                        Frame(trimmedUrl, platform, videoId))
  ELSE IF platform = facebook
  THEN IF facebookEmbed = URIError THEN Thrown(Frame(trimmedUrl, platform, NotReached))
       ELSE ParseResult(facebook, facebookEmbed, null,
                        Frame(trimmedUrl, platform, NotReached))
  ELSE ParseResult(null, null, S("Unsupported platform"),
                   Frame(trimmedUrl, platform, NotReached))

\* parseStreamUrl after url.trim()
ParseTrimmedUrl(trimmedUrl) ==
  ParseTrimmed(trimmedUrl, URL(trimmedUrl).ok, detectPlatform(trimmedUrl),
               extractYouTubeVideoId(trimmedUrl),
               IF build = "auto" THEN buildFacebookEmbedUrl(trimmedUrl, checkAutoMode)
               ELSE buildFacebookEmbedUrl_main(trimmedUrl))

parseStreamUrl(url) == ParseTrimmedUrl(trim(url))

-----------------------------------------------------------------------------
(* Inputs drawn for urlInput.value *)

Cat(as, bs) == {a \o b : a \in as, b \in bs}

Lits(ls) == {S(l) : l \in ls}

YouTubePaths ==
  Lits({"", "/", "/watch", "/abc123", "/live/abc123", "/shorts/abc123", "/embed/abc123",
        "/v/abc123", "/live/XyZ_9-", "/live/", "/x/live/a.b", "/a.b/live/c", "//abc123",
        "/live/a%2Fb", "/a b"})

YouTubeQueries ==
  Lits({"", "?v=abc123", "?v=", "?v", "?t=1&v=XyZ_9-", "?v=a%26b", "?v=a+b", "?v=a/b",
        "?v=a&v=b", "?%76=abc123", "?V=abc123", "?vv=abc123#v=abc123"})

YouTubeInputs ==
  Cat(Cat(Lits({"https://www.youtube.com", "https://youtu.be"}), YouTubePaths),
      YouTubeQueries)

Schemes == Lits({"https://", "HTTP://", "https:", "foo://"})

Authorities ==
  Lits({"youtube.com", "m.YouTube.COM", "www.youtube-nocookie.com", "youtu.be",
        "www.facebook.com", "fb.watch", "FB.com", "example.com",
        "notyoutube.com.evil.example", "facebook.com.youtube.com", "youtube.co",
        "user@example.com", "youtube.com@example.com", "example.com:8080",
        "fb.com:99999", "you tube.com", "", "youtube.com."})

HostTails == Lits({"/", "/watch?v=abc123", "/youtube.com/live/abc123?u=facebook.com"})

HostInputs == Cat(Cat(Schemes, Authorities), HostTails)

FacebookTails ==
  Lits({"/someone/videos/12345", "/watch/?v=123&t=4", "/a b", "/a%20b", "/v#frag",
        "/?u=https://youtu.be/abc123", "/a+b=c~(d)'!*"})
    \cup {S("/x") \o <<NBSP>> \o S("y"), S("/x") \o <<LoneSurrogate>>,
          S("/live?t=") \o <<LoneSurrogate>> \o S("1")}

FacebookInputs == Cat(Lits({"https://www.facebook.com", "https://fb.watch"}), FacebookTails)

RawInputs ==
  Lits({"", "not a url", "youtube.com/watch?v=abc123", "www.facebook.com/x", "https://",
        "://youtube.com", "1http://youtube.com/", "mailto:a@youtube.com",
        "javascript:youtube.com", "https:///youtube.com/watch?v=abc123",
        "foo:/youtube.com"})
    \cup {S("https://youtu") \o <<"\t">> \o S("be.com/abc123"),
          S("https://youtu.be/") \o <<LoneSurrogate>>,
          S("https://www.youtube.com/watch?v=") \o <<LoneSurrogate>>}

\* The same id in the four URL forms.
FormInputs ==
  Cat(Cat(Lits({"https://www.youtube.com", "https://m.youtube.com", "http://youtube.com"}),
          Lits({"/watch?v=", "/live/", "/shorts/", "/embed/"})),
      Lits({"abc123", "XyZ_9-", "a", "-_", "live"}))

\* At most MaxPad white-space characters on each side.
MaxPad == 1

PadChars == {" ", "\t", NBSP}

Pads == UNION {[1..n -> PadChars] : n \in 0..MaxPad}

PaddedInputs ==
  Cat(Cat(Pads,
          Lits({"", "https://www.youtube.com/watch?v=abc123", "https://fb.com/a b",
                "not a url"})),
      Pads)

Inputs ==
  YouTubeInputs \cup HostInputs \cup FacebookInputs \cup RawInputs \cup FormInputs
    \cup PaddedInputs

\* The inputs resolved twice.
RepeatInputs ==
  Lits({"", "not a url", "https://example.com/video", "https://www.youtube.com/watch",
        "https://www.youtube.com/watch?v=abc123", "https://youtu.be/XyZ_9-",
        "https://www.facebook.com/someone/videos/12345", " https://fb.watch/a b "})
    \cup {S("https://fb.com/x") \o <<LoneSurrogate>>}

\* Sizes of the player container (0 before layout).
ContainerSizes ==
  {[clientWidth |-> 0, clientHeight |-> 0],
   [clientWidth |-> 1920, clientHeight |-> 1030],
   [clientWidth |-> 640, clientHeight |-> 310]}

-----------------------------------------------------------------------------
(* Calls of the resolver *)

NoCall ==
  [made |-> FALSE, url |-> <<>>, sizeSelect |-> "",
   playerContainer |-> [clientWidth |-> 0, clientHeight |-> 0],
   result |-> Thrown(Frame(NotReached, NotReached, NotReached))]

\* A call parseStreamUrl(url) in the current state, with what the DOM
\* held when it ran.
Call(url) ==
  [made |-> TRUE, url |-> url, sizeSelect |-> sizeSelect,
   playerContainer |-> playerContainer, result |-> parseStreamUrl(url)]

\* setStatus(message, type)
setStatus(message, type) == [textContent |-> S(message), className |-> type]

\* The application as init leaves it, nothing loaded and no call under way.
AppStarted ==
  /\ currentStreamUrl = null
  /\ currentPlatform = null
  /\ isMaximized = (build = "maximize")
  /\ statusText = setStatus("Ready", "info")
  /\ streamIframes = <<>>
  /\ timers = 0
  /\ changeEvent = FALSE
  /\ recreations = 0

\* The application at rest, for the calls of the resolver alone.
AppQuiet ==
  /\ AppStarted
  /\ hostWindow = [maximized |-> build = "maximize", width |-> 1280, height |-> 720]
  /\ tasks = <<>>

\* One call on each input.  The "auto" build's resolver does not read the
\* container and the "maximize" build's does not read the selection: each
\* is held at one value here and varied under SpecRepeat.
Init ==
  /\ build \in {"auto", "maximize"}
  /\ urlInput \in Inputs
  /\ sizeSelect \in SizeKeys(build)
  /\ playerContainer \in ContainerSizes
  /\ build = "auto" => playerContainer = [clientWidth |-> 0, clientHeight |-> 0]
  /\ build = "maximize" => sizeSelect = "1280x720"
  /\ lastCall = NoCall
  /\ priorCall = NoCall
  /\ AppQuiet

\* The first parseStreamUrl(urlInput.value)
Resolve ==
  /\ ~lastCall.made
  /\ lastCall' = Call(urlInput)
  /\ UNCHANGED <<build, urlInput, sizeSelect, playerContainer, priorCall, appVars>>

Next == Resolve

Spec == Init /\ [][Next]_vars

\* Two calls on the same input, the selection and the container free to
\* change between them.
InitRepeat ==
  /\ build \in {"auto", "maximize"}
  /\ urlInput \in RepeatInputs
  /\ sizeSelect \in SizeKeys(build)
  /\ playerContainer \in ContainerSizes
  /\ lastCall = NoCall
  /\ priorCall = NoCall
  /\ AppQuiet

\* A second parseStreamUrl on the same text (a reload, or Load pressed again)
ResolveAgain ==
  /\ lastCall.made /\ ~priorCall.made
  /\ priorCall' = lastCall
  /\ lastCall' = Call(urlInput)
  /\ UNCHANGED <<build, urlInput, sizeSelect, playerContainer, appVars>>

\* The user picks another entry of the size selector.
SelectSize ==
  /\ lastCall.made /\ ~priorCall.made
  /\ \E k \in SizeKeys(build) : k # sizeSelect /\ sizeSelect' = k
  /\ UNCHANGED <<build, urlInput, playerContainer, lastCall, priorCall, appVars>>

\* The window, and with it the player container, changes size.
ResizeContainer ==
  /\ lastCall.made /\ ~priorCall.made
  /\ \E c \in ContainerSizes : c # playerContainer /\ playerContainer' = c
  /\ UNCHANGED <<build, urlInput, sizeSelect, lastCall, priorCall, appVars>>

NextRepeat == Resolve \/ ResolveAgain \/ SelectSize \/ ResizeContainer

SpecRepeat == InitRepeat /\ [][NextRepeat]_vars

-----------------------------------------------------------------------------
(* The application: the handlers of the page, the host window they call,    *)
(* and the callbacks they leave behind.  A handler runs to its next await   *)
(* in one step; the host answers a call in a step of its own.               *)

\* The texts typed into the URL field.
AppInputs ==
  Lits({"https://youtu.be/XyZ_9-", " https://fb.watch/a b ", "https://fb.watch/c",
        "not a url"})
    \cup {S("https://fb.com/x") \o <<LoneSurrogate>>}

\* The entries of the size selector that are picked.
AppSizeKeys(b) == IF b = "auto" THEN {"auto", "1280x720", "640x360"} ELSE {"1280x720", "640x360"}

\* At most MaxPending async calls started by the user and timeouts are
\* pending at a time.
MaxPending == 1

Status(message, type) == [textContent |-> message, className |-> type]

\* destroyCurrentIframe: getElementById gives the first element with the id.
destroyCurrentIframe == IF streamIframes = <<>> THEN <<>> ELSE Tail(streamIframes)

\* The identity of the element createElement makes: another one than the
\* element it replaces.
NewNode == IF streamIframes = <<>> THEN 0 ELSE 1 - streamIframes[1].node

IframeTitle(platform) ==
  IF platform = youtube THEN S("YouTube Live Stream") ELSE S("Facebook Live Stream")

\* createIframe that leaves the element it finds: the new one is attached
\* beside it.
createIframeBeside(embedUrl, platform) ==
  Append(streamIframes,
         [src |-> embedUrl, title |-> IframeTitle(platform),
          className |-> IF checkAutoMode /\ platform = facebook THEN "auto-mode"
                        ELSE "fill-mode",
          onload |-> checkAutoMode /\ platform = facebook, node |-> NewNode])

\* createIframe of part_000: onload is set for a Facebook stream in auto mode.
createIframe(embedUrl, platform) ==
  Append(destroyCurrentIframe,
         [src |-> embedUrl, title |-> IframeTitle(platform),
          className |-> IF checkAutoMode /\ platform = facebook THEN "auto-mode"
                        ELSE "fill-mode",
          onload |-> checkAutoMode /\ platform = facebook, node |-> NewNode])

\* createIframe of main.ts
createIframe_main(embedUrl, platform) ==
  Append(destroyCurrentIframe,
         [src |-> embedUrl, title |-> IframeTitle(platform), className |-> "",
          onload |-> FALSE, node |-> NewNode])

\* What a run of reloadCurrentStream or of the try block of handleLoadStream
\* leaves: the elements, the status line, and whether it threw.
Outcome(thrown, iframes, status) ==
  [thrown |-> thrown, streamIframes |-> iframes, statusText |-> status]

\* reloadCurrentStream after its guard, result being
\* parseStreamUrl(currentStreamUrl); status is the status line before it.
ReloadWith(result, status) ==
  IF result.thrown THEN Outcome(TRUE, streamIframes, status)
  ELSE IF result.embedUrl # null /\ result.platform # null
  THEN IF build = "auto"
       THEN Outcome(FALSE, createIframe(result.embedUrl, result.platform),
                    setStatus("Stream reloaded", "success"))
       ELSE Outcome(FALSE, createIframe_main(result.embedUrl, result.platform), status)
  ELSE Outcome(FALSE, streamIframes, status)

\* !currentStreamUrl || !currentPlatform
NothingLoaded ==
  currentStreamUrl = null \/ currentStreamUrl = <<>> \/ currentPlatform = null

reloadCurrentStream(status) ==
  IF NothingLoaded THEN Outcome(FALSE, streamIframes, status)
  ELSE ReloadWith(parseStreamUrl(currentStreamUrl), status)

\* An async function that waits on a call of the host window.
Task(fn, call, width, height, sizeKey) ==
  [fn |-> fn, call |-> call, reply |-> "pending", width |-> width, height |-> height,
   sizeKey |-> sizeKey, value |-> FALSE]

\* The tasks with task i at its next await / with task i ended.
Awaiting(i, call) == [tasks EXCEPT ![i].call = call, ![i].reply = "pending"]

AwaitingSize(i, sizeKey) ==
  [tasks EXCEPT ![i].call = "setSize", ![i].reply = "pending", ![i].sizeKey = sizeKey,
                ![i].width = SIZE_PRESETS[sizeKey].width,
                ![i].height = SIZE_PRESETS[sizeKey].height]

Ended(i) == SubSeq(tasks, 1, i - 1) \o SubSeq(tasks, i + 1, Len(tasks))

Resumes(i, fn) == tasks[i].fn = fn /\ tasks[i].reply # "pending"

\* The async calls started by the user that have not ended, and the timeouts.
Pending ==
  Cardinality({i \in 1..Len(tasks) : tasks[i].fn # "checkMaximizedState"}) + timers

\* The player container takes the room the controls leave of the window (of
\* the screen, 1920 x 1080, if the window is maximized).
Layout(window) ==
  IF window.maximized THEN [clientWidth |-> 1920, clientHeight |-> 1080 - CONTROL_BAR_HEIGHT]
  ELSE [clientWidth |-> window.width, clientHeight |-> window.height - CONTROL_BAR_HEIGHT]

\* The window after the host has performed the call of a task.
WindowAfter(task) ==
  CASE task.call = "setSize" -> [hostWindow EXCEPT !.width = task.width, !.height = task.height]
    [] task.call = "maximize" -> [hostWindow EXCEPT !.maximized = TRUE]
    [] task.call = "unmaximize" -> [hostWindow EXCEPT !.maximized = FALSE]
    [] OTHER -> hostWindow

\* The host performs the call a task waits on; the player container follows
\* the window.
HostPerforms ==
  /\ ~changeEvent
  /\ \E i \in 1..Len(tasks) :
       /\ tasks[i].reply = "pending"
       /\ tasks' = [tasks EXCEPT ![i].reply = "ok",
                                 ![i].value = tasks[i].call = "isMaximized"
                                              /\ hostWindow.maximized]
       /\ hostWindow' = WindowAfter(tasks[i])
       /\ playerContainer' = Layout(WindowAfter(tasks[i]))
  /\ UNCHANGED <<build, urlInput, sizeSelect, lastCall, priorCall, currentStreamUrl,
                 currentPlatform, isMaximized, statusText, streamIframes, timers, changeEvent>>

\* The host fails the call a task waits on.
HostRejects ==
  /\ ~changeEvent
  /\ \E i \in 1..Len(tasks) :
       /\ tasks[i].reply = "pending"
       /\ tasks' = [tasks EXCEPT ![i].reply = "error"]
  /\ UNCHANGED <<build, urlInput, sizeSelect, playerContainer, lastCall, priorCall,
                 currentStreamUrl, currentPlatform, isMaximized, statusText, streamIframes,
                 hostWindow, timers, changeEvent>>

\* handleLoadStream that stores the URL before it looks at the result.
LoadWithUrlFirst(url, result) ==
  IF result.thrown
  THEN UNCHANGED <<currentStreamUrl, currentPlatform, streamIframes, statusText>>
  ELSE IF result.error # null /\ result.error # <<>>
  THEN /\ statusText' = Status(result.error, "error")
       /\ currentStreamUrl' = url
       /\ UNCHANGED <<currentPlatform, streamIframes>>
  ELSE IF result.embedUrl # null /\ result.platform # null
  THEN /\ currentStreamUrl' = url
       /\ currentPlatform' = result.platform
       /\ streamIframes' = IF build = "auto" THEN createIframe(result.embedUrl, result.platform)
                           ELSE createIframe_main(result.embedUrl, result.platform)
       /\ statusText' = IF result.platform = youtube THEN setStatus("YouTube loaded", "success")
                        ELSE setStatus("Facebook loaded", "success")
  ELSE UNCHANGED <<currentStreamUrl, currentPlatform, streamIframes, statusText>>

\* handleLoadStream that clears the display when the resolver gives an error.
LoadWithTearDown(url, result) ==
  IF result.thrown
  THEN UNCHANGED <<currentStreamUrl, currentPlatform, streamIframes, statusText>>
  ELSE IF result.error # null /\ result.error # <<>>
  THEN /\ statusText' = Status(result.error, "error")
       /\ currentStreamUrl' = null
       /\ currentPlatform' = null
       /\ streamIframes' = destroyCurrentIframe
  ELSE IF result.embedUrl # null /\ result.platform # null
  THEN /\ currentStreamUrl' = url
       /\ currentPlatform' = result.platform
       /\ streamIframes' = IF build = "auto" THEN createIframe(result.embedUrl, result.platform)
                           ELSE createIframe_main(result.embedUrl, result.platform)
       /\ statusText' = IF result.platform = youtube THEN setStatus("YouTube loaded", "success")
                        ELSE setStatus("Facebook loaded", "success")
  ELSE UNCHANGED <<currentStreamUrl, currentPlatform, streamIframes, statusText>>

\* handleLoadStream that keeps the URL of a stream already loaded.
LoadWithStaleUrl(url, result) ==
  IF result.thrown
  THEN UNCHANGED <<currentStreamUrl, currentPlatform, streamIframes, statusText>>
  ELSE IF result.error # null /\ result.error # <<>>
  THEN /\ statusText' = Status(result.error, "error")
       /\ UNCHANGED <<currentStreamUrl, currentPlatform, streamIframes>>
  ELSE IF result.embedUrl # null /\ result.platform # null
  THEN /\ currentStreamUrl' = IF currentStreamUrl = null THEN url ELSE currentStreamUrl
       /\ currentPlatform' = result.platform
       /\ streamIframes' = IF build = "auto" THEN createIframe(result.embedUrl, result.platform)
                           ELSE createIframe_main(result.embedUrl, result.platform)
       /\ statusText' = IF result.platform = youtube THEN setStatus("YouTube loaded", "success")
                        ELSE setStatus("Facebook loaded", "success")
  ELSE UNCHANGED <<currentStreamUrl, currentPlatform, streamIframes, statusText>>

\* handleLoadStream after parseStreamUrl(url) gave result; an exception of
\* parseStreamUrl leaves the handler.
LoadWith(url, result) ==
  IF result.thrown
  THEN UNCHANGED <<currentStreamUrl, currentPlatform, streamIframes, statusText>>
  ELSE IF result.error # null /\ result.error # <<>>
  THEN /\ statusText' = Status(result.error, "error")
       /\ UNCHANGED <<currentStreamUrl, currentPlatform, streamIframes>>
  ELSE IF result.embedUrl # null /\ result.platform # null
  THEN /\ currentStreamUrl' = url
       /\ currentPlatform' = result.platform
       /\ streamIframes' = IF build = "auto" THEN createIframe(result.embedUrl, result.platform)
                           ELSE createIframe_main(result.embedUrl, result.platform)
       /\ statusText' = IF result.platform = youtube THEN setStatus("YouTube loaded", "success")
                        ELSE setStatus("Facebook loaded", "success")
  ELSE UNCHANGED <<currentStreamUrl, currentPlatform, streamIframes, statusText>>

\* The Load button (or Enter); url is the text the field holds at that
\* moment, an input of the step.
handleLoadStream ==
  /\ ~changeEvent
  /\ \E url \in AppInputs : LoadWith(url, parseStreamUrl(url))
  /\ UNCHANGED <<build, urlInput, sizeSelect, playerContainer, lastCall, priorCall,
                 isMaximized, hostWindow, tasks, timers, changeEvent>>

\* part_000: the user picks another entry of the size selector.  The change
\* event is dispatched at once; its handler reads the selection again, through
\* checkAutoMode, and is the next step.
ChangeSelection ==
  /\ ~changeEvent /\ build = "auto"
  /\ \E k \in AppSizeKeys(build) : k # sizeSelect /\ sizeSelect' = k
  /\ changeEvent' = TRUE
  /\ UNCHANGED <<build, urlInput, playerContainer, lastCall, priorCall, currentStreamUrl,
                 currentPlatform, isMaximized, statusText, streamIframes, hostWindow, tasks,
                 timers>>

\* The elements and the status line become those of an outcome.
Leaves(outcome) ==
  /\ streamIframes' = outcome.streamIframes
  /\ statusText' = outcome.statusText

\* currentPlatform === 'facebook' && currentStreamUrl
FacebookLoaded ==
  currentPlatform = facebook /\ currentStreamUrl # null /\ currentStreamUrl # <<>>

\* part_000: handleSizeChange, which is resizeWindow(sizeSelect.value) to its
\* first await.
handleSizeChange ==
  /\ changeEvent /\ build = "auto"
  /\ changeEvent' = FALSE
  /\ IF sizeSelect = "auto"
     THEN /\ Leaves(reloadCurrentStream(setStatus("Auto mode - native size", "success")))
          /\ tasks' = tasks
     ELSE /\ Pending < MaxPending
          /\ tasks' = Append(tasks, Task("resizeWindow", "setSize",
                                         SIZE_PRESETS[sizeSelect].width,
                                         SIZE_PRESETS[sizeSelect].height, sizeSelect))
          /\ UNCHANGED <<streamIframes, statusText>>
  /\ UNCHANGED <<build, urlInput, sizeSelect, playerContainer, lastCall, priorCall,
                 currentStreamUrl, currentPlatform, isMaximized, hostWindow, timers>>

\* 'Resized to WxH'
ResizedTo(task) ==
  Status(S("Resized to ") \o ToDecimal(task.width) \o S("x") \o ToDecimal(task.height),
         "success")

\* The end of the try block of resizeWindow; an exception of the reload is
\* caught like one of the host.
ResizeWindowEnds(outcome) ==
  IF outcome.thrown
  THEN /\ statusText' = setStatus("Failed to resize window", "error")
       /\ streamIframes' = streamIframes
  ELSE Leaves(outcome)

\* part_000: resizeWindow goes on after an await.
resizeWindowResumes ==
  /\ ~changeEvent
  /\ \E i \in 1..Len(tasks) :
       /\ Resumes(i, "resizeWindow")
       /\ \/ /\ tasks[i].reply = "error"
             /\ statusText' = setStatus("Failed to resize window", "error")
             /\ tasks' = Ended(i)
             /\ UNCHANGED streamIframes
          \/ /\ tasks[i].reply = "ok" /\ tasks[i].call = "setSize"
             /\ tasks' = Awaiting(i, "center")
             /\ UNCHANGED <<statusText, streamIframes>>
          \/ /\ tasks[i].reply = "ok" /\ tasks[i].call = "center"
             /\ tasks' = Ended(i)
             /\ IF FacebookLoaded
                THEN ResizeWindowEnds(reloadCurrentStream(ResizedTo(tasks[i])))
                ELSE /\ statusText' = ResizedTo(tasks[i])
                     /\ UNCHANGED streamIframes
  /\ UNCHANGED <<build, urlInput, sizeSelect, playerContainer, lastCall, priorCall,
                 currentStreamUrl, currentPlatform, isMaximized, hostWindow, timers,
                 changeEvent>>

\* part_000: the load event of an iframe whose onload is set calls
\* resizeWindowToFit(FACEBOOK_DEFAULT_WIDTH, FACEBOOK_DEFAULT_HEIGHT), which
\* runs to its first await.
IframeLoads ==
  /\ ~changeEvent
  /\ streamIframes # <<>> /\ streamIframes[1].onload
  /\ Pending < MaxPending
  /\ streamIframes' = [streamIframes EXCEPT ![1].onload = FALSE]
  /\ tasks' = Append(tasks, Task("resizeWindowToFit", "setSize", FACEBOOK_DEFAULT_WIDTH,
                                 FACEBOOK_DEFAULT_HEIGHT + CONTROL_BAR_HEIGHT, "auto"))
  /\ UNCHANGED <<build, urlInput, sizeSelect, playerContainer, lastCall, priorCall,
                 currentStreamUrl, currentPlatform, isMaximized, statusText, hostWindow,
                 timers, changeEvent>>

\* resizeWindowToFit that reloads the stream once the window is resized, as
\* resizeWindow does.
resizeWindowToFitReloads ==
  /\ ~changeEvent
  /\ \E i \in 1..Len(tasks) :
       /\ Resumes(i, "resizeWindowToFit")
       /\ \/ /\ tasks[i].reply = "error"
             /\ tasks' = Ended(i)
             /\ UNCHANGED <<statusText, streamIframes>>
          \/ /\ tasks[i].reply = "ok" /\ tasks[i].call = "setSize"
             /\ tasks' = Awaiting(i, "center")
             /\ UNCHANGED <<statusText, streamIframes>>
          \/ /\ tasks[i].reply = "ok" /\ tasks[i].call = "center"
             /\ tasks' = Ended(i)
             /\ Leaves(reloadCurrentStream(setStatus("Auto: 1280x720", "success")))
  /\ UNCHANGED <<build, urlInput, sizeSelect, playerContainer, lastCall, priorCall,
                 currentStreamUrl, currentPlatform, isMaximized, hostWindow, timers,
                 changeEvent>>

\* part_000: resizeWindowToFit goes on after an await; its catch only logs.
resizeWindowToFitResumes ==
  /\ ~changeEvent
  /\ \E i \in 1..Len(tasks) :
       /\ Resumes(i, "resizeWindowToFit")
       /\ \/ /\ tasks[i].reply = "error"
             /\ tasks' = Ended(i)
             /\ UNCHANGED statusText
          \/ /\ tasks[i].reply = "ok" /\ tasks[i].call = "setSize"
             /\ tasks' = Awaiting(i, "center")
             /\ UNCHANGED statusText
          \/ /\ tasks[i].reply = "ok" /\ tasks[i].call = "center"
             /\ tasks' = Ended(i)
             /\ statusText' = Status(S("Auto: ") \o ToDecimal(tasks[i].width) \o S("x")
                                       \o ToDecimal(tasks[i].height - CONTROL_BAR_HEIGHT),
                                     "success")
  /\ UNCHANGED <<build, urlInput, sizeSelect, playerContainer, lastCall, priorCall,
                 currentStreamUrl, currentPlatform, isMaximized, streamIframes, hostWindow,
                 timers, changeEvent>>

\* setTimeout(() => reloadCurrentStream(), 100) if a Facebook stream is loaded
ScheduleReload ==
  IF FacebookLoaded
  THEN Pending <= MaxPending /\ timers' = timers + 1
  ELSE timers' = timers

\* main.ts: handleSizeChange with sizeKey just selected, to its first await.
SizeChangeTo(sizeKey) ==
  IF isMaximized
  THEN /\ statusText' = setStatus("Size will apply when restored", "info")
       /\ tasks' = tasks
  ELSE /\ Pending < MaxPending
       /\ tasks' = Append(tasks, Task("handleSizeChange", "setSize",
                                      SIZE_PRESETS[sizeKey].width,
                                      SIZE_PRESETS[sizeKey].height, sizeKey))
       /\ UNCHANGED statusText

\* main.ts: the user picks another entry of the size selector and the change
\* event runs handleSizeChange.
handleSizeChange_main ==
  /\ ~changeEvent /\ build = "maximize"
  /\ \E k \in AppSizeKeys(build) : k # sizeSelect /\ sizeSelect' = k /\ SizeChangeTo(k)
  /\ UNCHANGED <<build, urlInput, playerContainer, lastCall, priorCall, currentStreamUrl,
                 currentPlatform, isMaximized, streamIframes, hostWindow, timers,
                 changeEvent>>

\* main.ts: handleSizeChange goes on after an await.
handleSizeChangeResumes ==
  /\ ~changeEvent
  /\ \E i \in 1..Len(tasks) :
       /\ Resumes(i, "handleSizeChange")
       /\ \/ /\ tasks[i].reply = "error"
             /\ statusText' = setStatus("Failed to resize", "error")
             /\ tasks' = Ended(i)
             /\ UNCHANGED timers
          \/ /\ tasks[i].reply = "ok" /\ tasks[i].call = "setSize"
             /\ tasks' = Awaiting(i, "center")
             /\ UNCHANGED <<statusText, timers>>
          \/ /\ tasks[i].reply = "ok" /\ tasks[i].call = "center"
             /\ tasks' = Ended(i)
             /\ statusText' = ResizedTo(tasks[i])
             /\ ScheduleReload
  /\ UNCHANGED <<build, urlInput, sizeSelect, playerContainer, lastCall, priorCall,
                 currentStreamUrl, currentPlatform, isMaximized, streamIframes, hostWindow,
                 changeEvent>>

\* main.ts: a click on the maximize button; toggleMaximize to its first
\* await.
toggleMaximize ==
  /\ ~changeEvent /\ build = "maximize"
  /\ Pending < MaxPending
  /\ tasks' = Append(tasks, Task("toggleMaximize",
                                 IF isMaximized THEN "unmaximize" ELSE "maximize",
                                 0, 0, ""))
  /\ UNCHANGED <<build, urlInput, sizeSelect, playerContainer, lastCall, priorCall,
                 currentStreamUrl, currentPlatform, isMaximized, statusText, streamIframes,
                 hostWindow, timers, changeEvent>>

\* main.ts: toggleMaximize goes on after an await.
toggleMaximizeResumes ==
  /\ ~changeEvent
  /\ \E i \in 1..Len(tasks) :
       /\ Resumes(i, "toggleMaximize")
       /\ \/ /\ tasks[i].reply = "error"
             /\ statusText' = setStatus("Failed to toggle window", "error")
             /\ tasks' = Ended(i)
             /\ UNCHANGED <<isMaximized, timers>>
          \/ /\ tasks[i].reply = "ok" /\ tasks[i].call = "unmaximize"
             /\ tasks' = AwaitingSize(i, sizeSelect)
             /\ UNCHANGED <<isMaximized, statusText, timers>>
          \/ /\ tasks[i].reply = "ok" /\ tasks[i].call = "setSize"
             /\ tasks' = Awaiting(i, "center")
             /\ UNCHANGED <<isMaximized, statusText, timers>>
          \/ /\ tasks[i].reply = "ok" /\ tasks[i].call = "center"
             /\ tasks' = Ended(i)
             /\ isMaximized' = FALSE
             /\ statusText' = Status(S("Restored to ") \o S(tasks[i].sizeKey), "success")
             /\ ScheduleReload
          \/ /\ tasks[i].reply = "ok" /\ tasks[i].call = "maximize"
             /\ tasks' = Ended(i)
             /\ isMaximized' = TRUE
             /\ statusText' = setStatus("Maximized", "success")
             /\ ScheduleReload
  /\ UNCHANGED <<build, urlInput, sizeSelect, playerContainer, lastCall, priorCall,
                 currentStreamUrl, currentPlatform, streamIframes, hostWindow, changeEvent>>

\* main.ts: checkMaximizedState goes on after its await; its catch only
\* logs.
checkMaximizedStateResumes ==
  /\ ~changeEvent
  /\ \E i \in 1..Len(tasks) :
       /\ Resumes(i, "checkMaximizedState")
       /\ tasks' = Ended(i)
       /\ isMaximized' = IF tasks[i].reply = "ok" THEN tasks[i].value ELSE isMaximized
  /\ UNCHANGED <<build, urlInput, sizeSelect, playerContainer, lastCall, priorCall,
                 currentStreamUrl, currentPlatform, statusText, streamIframes, hostWindow,
                 timers, changeEvent>>

\* main.ts: a timeout set by toggleMaximize or handleSizeChange runs
\* reloadCurrentStream; an exception of it is lost.
TimerFires ==
  /\ ~changeEvent
  /\ timers > 0
  /\ timers' = timers - 1
  /\ Leaves(reloadCurrentStream(statusText))
  /\ UNCHANGED <<build, urlInput, sizeSelect, playerContainer, lastCall, priorCall,
                 currentStreamUrl, currentPlatform, isMaximized, hostWindow, tasks,
                 changeEvent>>

\* init: the "maximize" build asks the host whether the window is maximized.
InitApp ==
  /\ build \in {"auto", "maximize"}
  /\ urlInput = <<>>
  /\ sizeSelect = "1280x720"
  /\ lastCall = NoCall
  /\ priorCall = NoCall
  /\ AppStarted
  /\ hostWindow \in {[maximized |-> m, width |-> 1280, height |-> 720] :
                       m \in IF build = "maximize" THEN BOOLEAN ELSE {FALSE}}
  /\ playerContainer = Layout(hostWindow)
  /\ tasks = IF build = "maximize"
             THEN <<Task("checkMaximizedState", "isMaximized", 0, 0, "")>>
             ELSE <<>>

\* The surfaces made are not counted here.
NextApp ==
  \/ handleLoadStream /\ UNCHANGED recreations
  \/ ChangeSelection /\ UNCHANGED recreations
  \/ handleSizeChange /\ UNCHANGED recreations
  \/ resizeWindowResumes /\ UNCHANGED recreations
  \/ IframeLoads /\ UNCHANGED recreations
  \/ resizeWindowToFitResumes /\ UNCHANGED recreations
  \/ handleSizeChange_main /\ UNCHANGED recreations
  \/ handleSizeChangeResumes /\ UNCHANGED recreations
  \/ toggleMaximize /\ UNCHANGED recreations
  \/ toggleMaximizeResumes /\ UNCHANGED recreations
  \/ checkMaximizedStateResumes /\ UNCHANGED recreations
  \/ TimerFires /\ UNCHANGED recreations
  \/ HostPerforms /\ UNCHANGED recreations
  \/ HostRejects /\ UNCHANGED recreations

SpecApp == InitApp /\ [][NextApp]_vars

-----------------------------------------------------------------------------
(* The application with a user who waits: an action of the user comes only  *)
(* when nothing of the actions before it is left to run.  The surfaces made *)
(* since that action are counted.                                           *)

\* The count of surfaces made stops at MaxRecreations.
MaxRecreations == 2

\* Nothing is left to run: no async function waits on the host, no timeout
\* is pending, no change event waits for its handler and no iframe has its
\* load event to come.
Quiet ==
  /\ tasks = <<>> /\ timers = 0 /\ ~changeEvent
  /\ \A i \in 1..Len(streamIframes) : ~streamIframes[i].onload

\* The step attaches a surface that was not attached before it.
SurfaceMade ==
  /\ streamIframes' # <<>>
  /\ streamIframes = <<>> \/ streamIframes'[Len(streamIframes')].node # streamIframes[1].node

\* The count after the step, from the count before it.
Counts(from) ==
  recreations' = IF SurfaceMade /\ from < MaxRecreations THEN from + 1 ELSE from

\* The clicks and selections of the user: each starts the count anew.
UserNext ==
  \/ Quiet /\ handleLoadStream /\ Counts(0)
  \/ Quiet /\ ChangeSelection /\ Counts(0)
  \/ Quiet /\ handleSizeChange_main /\ Counts(0)
  \/ Quiet /\ toggleMaximize /\ Counts(0)

\* What the page, the host and the timers do by themselves.
SystemNext ==
  \/ handleSizeChange /\ Counts(recreations)
  \/ resizeWindowResumes /\ Counts(recreations)
  \/ IframeLoads /\ Counts(recreations)
  \/ resizeWindowToFitResumes /\ Counts(recreations)
  \/ handleSizeChangeResumes /\ Counts(recreations)
  \/ toggleMaximizeResumes /\ Counts(recreations)
  \/ checkMaximizedStateResumes /\ Counts(recreations)
  \/ TimerFires /\ Counts(recreations)
  \/ HostPerforms /\ Counts(recreations)
  \/ HostRejects /\ Counts(recreations)

NextSettle == UserNext \/ SystemNext

\* The host answers every call, the continuation of an answered call runs,
\* a dispatched change event reaches its handler, a timeout set fires and an
\* iframe attached fires its load event.  For the three steps that may reload
\* (handleSizeChange and resizeWindowResumes of part_000, TimerFires) the
\* condition is stated on the variable that records the step, which is
\* enabled exactly when the step is.
Fairness ==
  /\ WF_vars(\/ IframeLoads /\ Counts(recreations)
             \/ resizeWindowToFitResumes /\ Counts(recreations)
             \/ handleSizeChangeResumes /\ Counts(recreations)
             \/ toggleMaximizeResumes /\ Counts(recreations)
             \/ checkMaximizedStateResumes /\ Counts(recreations)
             \/ HostPerforms /\ Counts(recreations)
             \/ HostRejects /\ Counts(recreations))
  /\ WF_changeEvent(changeEvent /\ changeEvent' = FALSE)
  /\ WF_tasks(/\ ~changeEvent
              /\ \E i \in 1..Len(tasks) :
                   /\ Resumes(i, "resizeWindow")
                   /\ tasks' \in {Ended(i), Awaiting(i, "center")})
  /\ WF_timers(~changeEvent /\ timers > 0 /\ timers' = timers - 1)

SpecSettle == InitApp /\ [][NextSettle]_vars /\ Fairness

-----------------------------------------------------------------------------
(* Properties of the resolver.  Each is read off the record of the last    *)
(* call: its input, what the DOM held, its outcome and its locals.          *)

Returned == lastCall.made /\ ~lastCall.result.thrown

Succeeded(platform) ==
  Returned /\ lastCall.result.platform = platform /\ lastCall.result.embedUrl # null

Failed(platform, message) ==
  /\ Returned
  /\ lastCall.result.platform = platform
  /\ lastCall.result.embedUrl = null
  /\ lastCall.result.error = S(message)

\* The trimmed input of the last call.
Trimmed == lastCall.result.frame.trimmedUrl

StartsWith(s, prefix) == Len(s) >= Len(prefix) /\ SubSeq(s, 1, Len(prefix)) = prefix

\* The name=value pieces of the query of an embed URL.
EmbedParams(embedUrl) ==
  LET q == IndexOfAny(embedUrl, {"?"}, 1)
  IN Split(SubSeq(embedUrl, q + 1, Len(embedUrl)), {"&"})

\* The value of the first of the pieces ps that starts with key.
ParamValue(ps, key) ==
  SubSeq(ps[Min({j \in 1..Len(ps) : StartsWith(ps[j], key)})], Len(key) + 1,
         Len(ps[Min({j \in 1..Len(ps) : StartsWith(ps[j], key)})]))

\* The value of the named parameter of an embed URL (the first one).
EmbedParam(embedUrl, name) == ParamValue(EmbedParams(embedUrl), S(name) \o <<"=">>)

decodeURIComponent(s) == Utf8Decode(PercentDecodeBytes(s))

\* C1: for every input and every size selection the call yields a result in
\* which exactly one of embedUrl and error is populated.
C1_ExactlyOnePopulated ==
  lastCall.made =>
    /\ ~lastCall.result.thrown
    /\ (lastCall.result.embedUrl # null) # (lastCall.result.error # null)

\* C2: no call of parseStreamUrl ends in an exception; every call returns a
\* ParseResult.
C2_NeverThrows == lastCall.made => ~lastCall.result.thrown

\* What C3 says of a call on a URL with the given lower-cased hostname.
ClassifiedByHostname(hostname, isYouTube, isFacebook) ==
  /\ isYouTube =>
       /\ lastCall.result.frame.platform = youtube
       /\ Returned /\ lastCall.result.platform = youtube
  /\ ~isYouTube /\ isFacebook =>
       /\ lastCall.result.frame.platform = facebook
       /\ Returned => lastCall.result.platform = facebook
  /\ ~isYouTube /\ ~isFacebook => Failed(null, "URL must be from YouTube or Facebook")

ClassifiedByHostnameOf(urlObj, hostname) ==
  urlObj.ok =>
    ClassifiedByHostname(hostname,
      \E n \in {"youtube.com", "youtu.be", "youtube-nocookie.com"} : includes(hostname, S(n)),
      \E n \in {"facebook.com", "fb.watch", "fb.com"} : includes(hostname, S(n)))

ClassifiedByUrl(urlObj) == ClassifiedByHostnameOf(urlObj, toLowerCase(urlObj.hostname))

\* C3: the platform is decided by the lower-cased hostname alone: YouTube
\* if it contains one of the three YouTube names, else Facebook if it
\* contains one of the three Facebook names, else the call fails with
\* 'URL must be from YouTube or Facebook' and no platform.
C3_ClassifiedByHostname ==
  lastCall.made /\ Trimmed # <<>> => ClassifiedByUrl(URL(Trimmed))

\* A well-formed URL whose hostname names no platform while its path and
\* its query name both has been resolved.
C3_Witness ==
  /\ lastCall.made
  /\ lastCall.url = S("https://example.com/youtube.com/live/abc123?u=facebook.com")
  /\ Failed(null, "URL must be from YouTube or Facebook")

ClassifiedYouTube == lastCall.made /\ lastCall.result.frame.platform = youtube

\* The three patterns of the video-id extraction, on the URL of the trimmed
\* input: (a) the values of the v parameters, in order; (b) the non-empty
\* path segments of a youtu.be URL; (c) the id of the path pattern, or null.
VParamValues(urlObj) ==
  SelectSeq(SearchParams(urlObj), LAMBDA p : p[1] = S("v"))

ShortLinkSegments(urlObj) ==
  IF includes(toLowerCase(urlObj.hostname), S("youtu.be"))
  THEN SelectSeq(Split(urlObj.pathname, {"/"}), LAMBDA p : p # <<>>)
  ELSE <<>>

\* C4 as stated, on the three patterns.
FailsOnlyIfNoneOf(vValues, segments, pathId) ==
  Failed(youtube, "Could not extract YouTube video ID") =>
    vValues = <<>> /\ segments = <<>> /\ pathId = null

FailsOnlyIfNoPattern(urlObj) ==
  FailsOnlyIfNoneOf(VParamValues(urlObj), ShortLinkSegments(urlObj), PathMatch(urlObj.pathname))

\* C4 as stated: the first pattern that matches gives the id, and the call
\* fails with 'Could not extract YouTube video ID' only if none of the
\* three matches.
C4_FailsOnlyIfNoPatternMatches == ClassifiedYouTube => FailsOnlyIfNoPattern(URL(Trimmed))

\* id is the id extracted, and the call fails exactly if fails holds.
ExtractsAndFails(id, fails) ==
  /\ lastCall.result.frame.videoId = id
  /\ Failed(youtube, "Could not extract YouTube video ID") <=> fails
  /\ Succeeded(youtube) <=> ~fails

FirstOfPatterns(vValues, segments, pathId) ==
  ExtractsAndFails(IF vValues # <<>> THEN vValues[1][2]
                   ELSE IF segments # <<>> THEN segments[1]
                   ELSE pathId,
                   \/ vValues = <<>> /\ segments = <<>> /\ pathId = null
                   \/ vValues # <<>> /\ vValues[1][2] = <<>>)

FirstPatternWins(urlObj) ==
  FirstOfPatterns(VParamValues(urlObj), ShortLinkSegments(urlObj), PathMatch(urlObj.pathname))

\* C4: the id is the value of the v parameter if there is one; else, on a
\* youtu.be hostname, the first non-empty path segment; else the id of the
\* path pattern.  The call fails with 'Could not extract YouTube video ID'
\* exactly when no pattern matches or the v parameter is there with an
\* empty value.
C4_FirstMatchWins == ClassifiedYouTube => FirstPatternWins(URL(Trimmed))

\* A URL that matches the v parameter (with another id) and the path
\* pattern has resolved to the id of the v parameter.
C4_Witness ==
  /\ ClassifiedYouTube
  /\ lastCall.url = S("https://www.youtube.com/live/abc123?t=1&v=XyZ_9-")
  /\ Succeeded(youtube)
  /\ lastCall.result.frame.videoId = S("XyZ_9-")

\* C5: the video id of every successful YouTube resolution consists of
\* letters, digits, '_' and '-' only.
C5_VideoIdCharacters ==
  Succeeded(youtube) => Range(lastCall.result.frame.videoId) \subseteq IdChars

YouTubeEmbed(videoId) ==
  S("https://www.youtube-nocookie.com/embed/") \o videoId
    \o S("?autoplay=1&rel=0&modestbranding=1")

\* C6: a successful YouTube resolution has the embed URL
\* https://www.youtube-nocookie.com/embed/{videoId}?autoplay=1&rel=0&modestbranding=1,
\* and the forms /watch?v=id, /live/id, /shorts/id and /embed/id of an id of
\* letters, digits, '_' and '-' on a youtube.com host all resolve to that
\* URL for id, with platform YouTube.
C6_YouTubeEmbedUrl ==
  /\ Succeeded(youtube) =>
       lastCall.result.embedUrl = YouTubeEmbed(lastCall.result.frame.videoId)
  /\ lastCall.made =>
       \A host \in {"https://www.youtube.com", "https://m.youtube.com", "http://youtube.com"},
          form \in {"/watch?v=", "/live/", "/shorts/", "/embed/"} :
         LET prefix == S(host) \o S(form)
             id == SubSeq(lastCall.url, Len(prefix) + 1, Len(lastCall.url))
         IN StartsWith(lastCall.url, prefix) /\ id # <<>> /\ Range(id) \subseteq IdChars =>
              Succeeded(youtube) /\ lastCall.result.embedUrl = YouTubeEmbed(id)

\* The /shorts/ form of an id has been resolved.
C6_Witness ==
  /\ lastCall.made
  /\ lastCall.url = S("https://m.youtube.com/shorts/XyZ_9-")
  /\ Succeeded(youtube)

ClassifiedFacebook == lastCall.made /\ lastCall.result.frame.platform = facebook

\* Whether the call was given a display size: in the "auto" build unless
\* the selection is 'auto', in the "maximize" build always.
SizeSupplied == build = "maximize" \/ lastCall.sizeSelect # "auto"

\* The parameters ps of an embed URL are those of C7 as stated, sized being
\* the width= and height= ones among them.
OnlyStatedParams(ps, sized, href) ==
  /\ Range(ps) \ sized = {S("href=") \o href, S("show_text=false"), S("autoplay=true"),
                          S("allowfullscreen=true")}
  /\ Cardinality(sized) = IF SizeSupplied THEN 2 ELSE 0
  /\ Len(ps) = 4 + Cardinality(sized)

OnlyStatedParamsOf(ps, href) ==
  OnlyStatedParams(ps, {p \in Range(ps) : StartsWith(p, S("width=")) \/ StartsWith(p, S("height="))},
                   href)

SuppliedSize ==
  IF build = "auto"
  THEN [width |-> SIZE_PRESETS[lastCall.sizeSelect].width,
        height |-> SIZE_PRESETS[lastCall.sizeSelect].height - 50]
  ELSE [width |-> IF lastCall.playerContainer.clientWidth = 0 THEN 1280
                  ELSE lastCall.playerContainer.clientWidth,
        height |-> IF lastCall.playerContainer.clientHeight = 0 THEN 670
                   ELSE lastCall.playerContainer.clientHeight]

C8_HrefRoundTrip ==
  Succeeded(facebook) =>
    decodeURIComponent(EmbedParam(lastCall.result.embedUrl, "href")) = trim(lastCall.url)

\* A Facebook URL with white space around it, and with a space and an '&'
\* or a non-ASCII character in it, has been resolved.
C8_Witness ==
  /\ Succeeded(facebook)
  /\ \/ lastCall.url = <<NBSP>> \o S("https://fb.com/a b") \o <<"\t">>
     \/ lastCall.url = S("https://www.facebook.com/watch/?v=123&t=4")
     \/ lastCall.url = S("https://fb.watch/x") \o <<NBSP>> \o S("y")

SizeRead(call) == IF build = "auto" THEN <<call.sizeSelect>> ELSE <<call.playerContainer>>

C10_EmptyInput ==
  lastCall.made /\ (\A i \in 1..Len(lastCall.url) : IsJsWhiteSpace(lastCall.url[i])) =>
    /\ Failed(null, "Please enter a URL")
    /\ lastCall.result.frame.platform = NotReached
    /\ lastCall.result.frame.videoId = NotReached

\* An input of a tab or a no-break space has been resolved.
C10_Witness ==
  /\ lastCall.made
  /\ lastCall.url \in {<<"\t">>, <<NBSP>>, <<" ", "\t">>}
  /\ Failed(null, "Please enter a URL")

\* C11: a non-empty trimmed input that new URL rejects fails with 'Invalid
\* URL format' and no platform, the classification and the extraction not
\* reached, whatever platform name the text holds.
C11_InvalidUrlFormat ==
  lastCall.made /\ Trimmed # <<>> /\ ~URL(Trimmed).ok =>
    /\ Failed(null, "Invalid URL format")
    /\ lastCall.result.frame.platform = NotReached
    /\ lastCall.result.frame.videoId = NotReached

\* A text without a scheme that holds 'youtube.com' has been resolved.
C11_Witness ==
  /\ lastCall.made
  /\ lastCall.url = S("youtube.com/watch?v=abc123")
  /\ Failed(null, "Invalid URL format")

NoPatternFailsFor(vValues, segments, pathId) ==
  vValues = <<>> /\ segments = <<>> /\ pathId = null =>
    Failed(youtube, "Could not extract YouTube video ID")

NoPatternFails(urlObj) ==
  NoPatternFailsFor(VParamValues(urlObj), ShortLinkSegments(urlObj), PathMatch(urlObj.pathname))

\* C12: a URL classified as YouTube that matches none of the three
\* extraction patterns fails with 'Could not extract YouTube video ID', no
\* embed URL, and platform YouTube.
C12_NoPatternStillYouTube == ClassifiedYouTube => NoPatternFails(URL(Trimmed))

\* /watch without a v parameter has been resolved.
C12_Witness ==
  /\ ClassifiedYouTube
  /\ lastCall.url = S("https://www.youtube.com/watch")
  /\ Failed(youtube, "Could not extract YouTube video ID")

-----------------------------------------------------------------------------
(* Properties of the application.                                           *)

\* The element attached to the player container, if there is one.
Attached == streamIframes # <<>>

\* C13: after any interleaving of loads, reloads, size changes, maximize
\* toggles and deferred reloads, at most one iframe 'stream-iframe' is
\* attached to the player container: createIframe removes the element it
\* finds before it attaches the new one.
C13_AtMostOneSurface == Len(streamIframes) <= 1

\* A second element has taken the place of the first.
C13_Witness == Len(streamIframes) = 1 /\ streamIframes[1].node = 1

\* The calls of toggleMaximize that have not ended.
Toggles(ts) == Cardinality({i \in 1..Len(ts) : ts[i].fn = "toggleMaximize"})

\* C14: when a maximize toggle completes, whether its host calls succeeded
\* or failed part-way and however the initial isMaximized query is
\* interleaved with it, the isMaximized flag equals the maximized state of the
\* host window.
C14_FlagMatchesWindow ==
  [][Toggles(tasks') < Toggles(tasks) => isMaximized' = hostWindow'.maximized]_vars

\* The step is the catch of the async function task i belongs to: a call of
\* setSize, center, maximize or unmaximize has failed and the function ends.
CatchesFailure(i) ==
  /\ tasks[i].reply = "error"
  /\ tasks[i].call \in {"setSize", "center", "maximize", "unmaximize"}
  /\ tasks' = Ended(i)

\* C15: a failed call of the host window (setSize, center, maximize,
\* unmaximize) is caught and shown as error status text; the attached
\* surface, currentStreamUrl and currentPlatform stay as they are, and no
\* reload is done or scheduled on the way.
C15_HostFailureShown ==
  [][\A i \in 1..Len(tasks) :
       CatchesFailure(i) =>
         /\ statusText'.className = "error"
         /\ UNCHANGED <<streamIframes, currentStreamUrl, currentPlatform, timers>>]_vars

\* The embed URL src is one of the stream that result, the resolution of
\* currentStreamUrl, names: the embed of its video for YouTube, an embed of
\* its href for Facebook (whose size parameters are those of the moment the
\* surface was made).
SameStream(src, result) ==
  /\ ~result.thrown
  /\ result.platform = currentPlatform
  /\ result.embedUrl # null
  /\ IF currentPlatform = youtube THEN src = result.embedUrl
     ELSE EmbedParam(src, "href") = EmbedParam(result.embedUrl, "href")

\* C16: a successful load supersedes the display before it: then and through
\* every later reload (at once, after an awaited resize, or from a timer set
\* before the load) the attached surface is an embed of the URL loaded last,
\* currentStreamUrl, and its title is that of currentPlatform.
C16_SurfaceOfLastLoad ==
  Attached =>
    /\ currentStreamUrl # null
    /\ streamIframes[1].title = IframeTitle(currentPlatform)
    /\ SameStream(streamIframes[1].src, parseStreamUrl(currentStreamUrl))

\* A second Facebook URL is loaded and its stream has been reloaded.
C16_Witness ==
  /\ Attached
  /\ currentStreamUrl = S("https://fb.watch/c")
  /\ streamIframes[1].node = 1
  /\ statusText = setStatus("Stream reloaded", "success")

\* The step is handleLoadStream with url in the field, result being
\* parseStreamUrl(url).
LoadStep(url, result) ==
  /\ ~changeEvent
  /\ LoadWith(url, result)
  /\ UNCHANGED <<build, urlInput, sizeSelect, playerContainer, lastCall, priorCall,
                 isMaximized, hostWindow, tasks, timers, changeEvent>>

\* The error the resolver gives for url, which no size selection changes:
\* trim, new URL, detectPlatform and extractYouTubeVideoId read no state.
ErrorOf(url) ==
  ParseTrimmed(url, URL(url).ok, detectPlatform(url), extractYouTubeVideoId(url), <<>>).error

\* The typed texts that the resolver rejects.
RejectedInputs == {url \in AppInputs : ErrorOf(trim(url)) # null}

\* A load that the resolver rejects shows the error and changes nothing else.
RejectedLoadShown(url, result) ==
  /\ ~result.thrown /\ result.error # null
  /\ LoadStep(url, result)
  => /\ statusText' = [textContent |-> result.error, className |-> "error"]
     /\ UNCHANGED <<streamIframes, currentStreamUrl, currentPlatform>>

\* C17: when handleLoadStream runs with an input the resolver rejects, the
\* error text is shown as error status, and the surface displayed before,
\* currentStreamUrl and currentPlatform are left as they were.
C17_RejectedLoadKeepsStream ==
  [][\A url \in RejectedInputs : RejectedLoadShown(url, parseStreamUrl(url))]_vars

\* A text that is no URL was submitted while a stream was displayed.
C17_Witness ==
  /\ Attached /\ currentStreamUrl # null
  /\ statusText = setStatus("Invalid URL format", "error")

\* The step belongs to a handler or callback other than handleLoadStream,
\* which alone leaves all of these as they are.
NotALoad == <<tasks, timers, changeEvent, sizeSelect>>' # <<tasks, timers, changeEvent, sizeSelect>>

\* C18: a size change or a maximize toggle makes the surface anew only for
\* a Facebook stream: while the current stream is a YouTube stream, no resize,
\* no selection of auto mode and no deferred reload (even one scheduled while
\* a Facebook stream was loaded) removes its surface and attaches another.
C18_YouTubeSurfaceKept ==
  [][currentPlatform = youtube /\ NotALoad => streamIframes' = streamIframes]_vars

\* A size selection made while the window is maximized calls nothing of the
\* host and reloads nothing, now or later.
MaximizedSelectionWaits ==
  sizeSelect' # sizeSelect /\ hostWindow.maximized =>
    UNCHANGED <<tasks, timers, streamIframes, hostWindow>>

\* The step ends call i of toggleMaximize with its last await answered.
ToggleSucceeds(i) ==
  /\ tasks[i].fn = "toggleMaximize" /\ tasks[i].reply = "ok"
  /\ tasks[i].call \in {"center", "maximize"}
  /\ tasks' = Ended(i)

\* A restore that succeeds leaves the window at the preset it read from the
\* size selector and clears isMaximized.
RestoreAppliesSelection(i) ==
  ToggleSucceeds(i) /\ tasks[i].call = "center" =>
    /\ hostWindow'.width = SIZE_PRESETS[tasks[i].sizeKey].width
    /\ hostWindow'.height = SIZE_PRESETS[tasks[i].sizeKey].height
    /\ ~isMaximized'

\* A toggle that succeeds flips isMaximized.
ToggleFlips(i) == ToggleSucceeds(i) => isMaximized' # isMaximized

\* C19: a size selection made while the window is maximized issues no call
\* of the host window and no reload; it is applied by the next restore that
\* succeeds, which sets the window to the preset selected when it runs and
\* clears isMaximized; and each toggle that succeeds flips isMaximized.
C19_SelectionAppliedOnRestore ==
  [][/\ MaximizedSelectionWaits
     /\ \A i \in 1..Len(tasks) : RestoreAppliesSelection(i) /\ ToggleFlips(i)]_vars

\* currentStreamUrl and currentPlatform are both null or both set, and set
\* whenever a surface is attached.
StreamStatePaired ==
  /\ currentStreamUrl = null <=> currentPlatform = null
  /\ Attached => currentStreamUrl # null /\ currentPlatform # null

\* The step is a handleLoadStream that succeeds: no other handler is
\* involved, and it ends with the stream stored, its surface attached and
\* the success text of the platform shown.
LoadSucceeds ==
  /\ ~NotALoad
  /\ currentStreamUrl' # null /\ currentPlatform' \in {youtube, facebook}
  /\ Len(streamIframes') = 1
  /\ streamIframes'[1].title = IframeTitle(currentPlatform')
  /\ statusText' = IF currentPlatform' = youtube THEN setStatus("YouTube loaded", "success")
                   ELSE setStatus("Facebook loaded", "success")

\* C20: in every reachable state currentStreamUrl and currentPlatform are
\* both null or both non-null, and both non-null whenever a surface is
\* attached; they change only in a handleLoadStream that succeeds.
C20_StreamStatePaired ==
  /\ []StreamStatePaired
  /\ [][<<currentStreamUrl, currentPlatform>>' # <<currentStreamUrl, currentPlatform>>
          => LoadSucceeds]_vars

\* A YouTube stream has been loaded over another stream.
C20_Witness ==
  /\ currentStreamUrl = S("https://youtu.be/XyZ_9-") /\ currentPlatform = youtube
  /\ Attached /\ streamIframes[1].node = 1

\* C21: every single action of the user (a load, a size change, a selection
\* of auto mode, a maximize toggle) makes the surface anew at most once, and
\* then nothing is left to run: the resize after the load event of an
\* auto-mode iframe and the reload after a resize do not start each other
\* again.
C21_OneRecreationThenQuiet == [](recreations <= 1) /\ []<>Quiet

\* The window was resized to fit the one surface an action made, and all is
\* quiet.
C21_Witness ==
  /\ Quiet /\ recreations = 1
  /\ statusText = setStatus("Auto: 1280x720", "success")

=============================================================================
